---- MODULE Spec2Model ----
(***************************************************************************)
(* A model of the Result type of dark-matter, of its composition          *)
(* combinators (resultPipe / rpipe / rpipeAsync, pipe / pipeAsync and     *)
(* cond / rcond), of its error utilities (createErrorString,              *)
(* createErrorProperties, rTry, rTryAsync) and of unwrapResults and       *)
(* combineResults.                                                         *)
(*                                                                         *)
(* JavaScript values whose static type is `string` are TLA+ strings.      *)
(* Values of type `unknown`, or of an optional type, are tagged records   *)
(* (field t), so that values of different types can be compared.          *)
(***************************************************************************)
EXTENDS Integers, Sequences, FiniteSets, TLC

VARIABLES
  fns,          \* the step functions handed to the running pipe (descriptors)
  initial,      \* the initial value handed to pipe / pipeAsync
  args,         \* the input handed to cond / rcond, or the arguments of a
                \* direct call, keyed by parameter name
  conditionals, \* the {condition, action} pairs handed to cond / rcond
  op,           \* the operation being run ("none" before the first call)
  pc,           \* position of the running call: "idle", "await" or "done"
  idx,          \* index of the step whose value the call is awaiting
  awaited,      \* the promise the call is suspended on
  inflight,     \* steps invoked whose value has not yet reached the pipe
  calls,        \* log of the invocations made by the running call
  outcome,      \* how the running call ended
  ref           \* outcome and log of the resultPipe call that ran before

vars == <<fns, initial, args, conditionals, op, pc, idx, awaited, inflight,
          calls, outcome, ref>>

(***************************************************************************)
(* Bounds of the model.                                                    *)
(***************************************************************************)
MaxSteps == 3
MaxFns == 5
MaxStages == 3
MaxConds == 3
MaxResults == 3
MaxItems == 2
MaxInvocations == 2
MaxParSteps == 2

-----------------------------------------------------------------------------
(***************************************************************************)
(* JavaScript values.                                                      *)
(***************************************************************************)
Undefined == [t |-> "undefined"]
Num(n) == [t |-> "number", num |-> n]
NaN == [t |-> "NaN"]
Str(s) == [t |-> "string", str |-> s]
PlainObject(message) == [t |-> "object", message |-> message]
ErrorObject(name, message, stack, cause) ==
  [t |-> "Error", name |-> name, message |-> message, stack |-> stack,
   cause |-> cause]

IsTagged(v, tag) == "t" \in DOMAIN v /\ v.t = tag

\* `x instanceof Error`
instanceofError(x) == IsTagged(x, "Error")

\* truthiness of a value of type string | undefined
Truthy(v) == IsTagged(v, "string") /\ v.str # ""

\* String(x): the host's string conversion
StringOf(x) ==
  CASE IsTagged(x, "string") -> x.str
    [] IsTagged(x, "number") -> ToString(x.num)
    [] IsTagged(x, "NaN") -> "NaN"
    [] IsTagged(x, "undefined") -> "undefined"
    [] IsTagged(x, "Error") ->
         IF x.name = "" THEN x.message
         ELSE IF x.message = "" THEN x.name
         ELSE x.name \o ": " \o x.message
    [] OTHER -> "[object Object]"

-----------------------------------------------------------------------------
(***************************************************************************)
(* The Result type.                                                        *)
(***************************************************************************)
isSuccess(result) == "success" \in DOMAIN result /\ result.success = TRUE

isFail_Never(result) == FALSE

isFail(result) == "success" \in DOMAIN result /\ result.success = FALSE

createSuccess_NoFlag(output) == [output |-> output]

createSuccess_Stringified(output) ==
  [success |-> TRUE, output |-> Str(StringOf(output))]

createSuccess(output) == [success |-> TRUE, output |-> output]

createFail_StringOnly(error) ==
  [success |-> FALSE,
   error |-> IF IsTagged(error, "string") THEN error.str ELSE error.error]

\* Reading a property of an object: undefined when the key is missing.
Get(obj, key) == IF key \in DOMAIN obj THEN obj[key] ELSE Undefined

createFail_KeepContext(error) ==
  IF IsTagged(error, "string")
  THEN [success |-> FALSE, error |-> error.str]
  ELSE [success |-> FALSE, error |-> error.error,
        message |-> Get(error, "message"), stack |-> Get(error, "stack"),
        cause |-> Get(error, "cause"), name |-> Get(error, "name"),
        context |-> Get(error, "context")]

\* The argument is a string (tagged) or a record {error, message?, ...}.
\* The record form spreads all four optional keys; a key the record lacks is
\* read as undefined and stored as such.
createFail(error) ==
  IF IsTagged(error, "string")
  THEN [success |-> FALSE, error |-> error.str]
  ELSE [success |-> FALSE, error |-> error.error,
        message |-> Get(error, "message"), stack |-> Get(error, "stack"),
        cause |-> Get(error, "cause"), name |-> Get(error, "name")]

-----------------------------------------------------------------------------
(***************************************************************************)
(* Error normalization.                                                    *)
(***************************************************************************)
createErrorString_DuckTyped(error, context) ==
  context \o (IF instanceofError(error)
              THEN (IF Truthy(error.stack) THEN error.stack.str
                    ELSE error.message)
              ELSE IF IsTagged(error, "object") THEN error.message.str
              ELSE StringOf(error))

createErrorString(error, context) ==
  context \o (IF instanceofError(error)
              THEN (IF Truthy(error.stack) THEN error.stack.str
                    ELSE error.message)
              ELSE StringOf(error))

createErrorProperties_CauseNormalized(error, context) ==
  [t |-> "object",
   error |-> createErrorString(error, context),
   context |-> context,
   message |-> IF instanceofError(error) THEN Str(error.message) ELSE Undefined,
   stack |-> IF instanceofError(error) THEN error.stack ELSE Undefined,
   cause |-> IF instanceofError(error) /\ error.cause # Undefined
             THEN Str(createErrorString(error.cause, ""))
             ELSE Undefined,
   name |-> IF instanceofError(error) THEN Str(error.name) ELSE Undefined]

createErrorProperties(error, context) ==
  [t |-> "object",
   error |-> createErrorString(error, context),
   context |-> context,
   message |-> IF instanceofError(error) THEN Str(error.message) ELSE Undefined,
   stack |-> IF instanceofError(error) THEN error.stack ELSE Undefined,
   cause |-> IF instanceofError(error) THEN error.cause ELSE Undefined,
   name |-> IF instanceofError(error) THEN Str(error.name) ELSE Undefined]

-----------------------------------------------------------------------------
(***************************************************************************)
(* Promises and caller-supplied step functions.                            *)
(*                                                                         *)
(* A step is a descriptor [mode, kind].  kind fixes what the function      *)
(* does with its argument list: it returns a value or throws one.  A step  *)
(* of mode "sync" does so directly; a step of mode "pending" (an async     *)
(* function) returns a pending promise that later fulfils with the         *)
(* returned value or rejects with the thrown one.                          *)
(***************************************************************************)
Return(v) == [type |-> "return", value |-> v]
Throw(x) == [type |-> "throw", value |-> x]
Resolve(v) == [type |-> "resolve", value |-> v]
Reject(x) == [type |-> "reject", value |-> x]
NoOutcome == [type |-> "none"]

NoPromise == [state |-> "none"]
Fulfilled(v) == [state |-> "fulfilled", then |-> "fulfilled", value |-> v]
Pending(o) ==
  [state |-> "pending",
   then |-> IF o.type = "return" THEN "fulfilled" ELSE "rejected",
   value |-> o.value]
IsPromise(v) == "state" \in DOMAIN v

\* Promise.resolve(v) / `await v`: a promise is adopted, a value is wrapped.
PromiseResolve(v) == IF IsPromise(v) THEN v ELSE Fulfilled(v)

\* Values a step may throw.
ErrWithStack ==
  ErrorObject("Error", "boom", Str("Error: boom at step"), Undefined)
ErrNoStack ==
  ErrorObject("TypeError", "bad input", Undefined, Str("root cause"))
Thrown(kind) ==
  CASE kind = "throwError" -> ErrWithStack
    [] kind = "throwBareError" -> ErrNoStack
    [] kind = "throwString" -> Str("string error")
    [] kind = "throwNumber" -> Num(123)
    [] kind = "throwEmptyString" -> Str("")
    [] kind = "throwObject" -> PlainObject(Str("test error"))

ThrowKinds == {"throwError", "throwBareError", "throwString", "throwNumber"}

\* A Failure carrying every optional field.
RichFail ==
  createFail([t |-> "object", error |-> "rich failure",
              message |-> Str("short"), stack |-> Str("at validate"),
              cause |-> Num(7), name |-> Str("ValidationError")])

Inc(a) ==
  IF Len(a) >= 1 /\ IsTagged(a[1], "number") THEN Num(a[1].num + 1) ELSE NaN
Dbl(a) ==
  IF Len(a) >= 1 /\ IsTagged(a[1], "number") THEN Num(a[1].num * 2) ELSE NaN

\* What a Result-returning step of the given kind does with argument list a.
ResultStepOutcome(kind, a) ==
  CASE kind = "one" -> Return(createSuccess(Num(1)))
    [] kind = "inc" -> Return(createSuccess(Inc(a)))
    [] kind = "dbl" -> Return(createSuccess(Dbl(a)))
    [] kind = "failString" -> Return(createFail(Str("err")))
    [] kind = "failRich" -> Return(RichFail)
    [] kind \in ThrowKinds -> Throw(Thrown(kind))

\* The call expression fn(...a) of a Result-returning step.
CallResultFn(fn, a) ==
  IF fn.mode = "sync" THEN ResultStepOutcome(fn.kind, a)
  ELSE Return(Pending(ResultStepOutcome(fn.kind, a)))

Modes == {"sync", "pending"}
FailKinds == {"failString", "failRich"}
FirstKinds == {"one"} \cup FailKinds \cup ThrowKinds
LaterKinds == {"inc", "dbl"} \cup FailKinds \cup ThrowKinds
Steps(kinds) == [mode : Modes, kind : kinds]

\* The chains a caller can hand to resultPipe: fn1 takes no argument.
ResultChains ==
  UNION {{c \in [1..n -> Steps(FirstKinds \cup LaterKinds)] :
            /\ c[1].kind \in FirstKinds
            /\ \A i \in 2..n : c[i].kind \in LaterKinds} : n \in 1..MaxSteps}

AllSync(chain) == \A i \in 1..Len(chain) : chain[i].mode = "sync"

Call(i, a) == [fn |-> i, args |-> a]

-----------------------------------------------------------------------------
(***************************************************************************)
(* resultPipe: an async function.  Between two awaits its body runs        *)
(* without interruption; a frame says where that run of the body ends:     *)
(* suspended on a promise (pc "await") or returned (pc "done").            *)
(***************************************************************************)
Suspended(i, promise, call) ==
  [pc |-> "await", idx |-> i, awaited |-> promise, outcome |-> NoOutcome,
   calls |-> <<call>>, inflight |-> {i}]
Finished(o, newCalls) ==
  [pc |-> "done", idx |-> 0, awaited |-> NoPromise, outcome |-> o,
   calls |-> newCalls, inflight |-> {}]

resultPipeCatch_Guard(error) == createFail(createErrorProperties(error, ""))

\* catch (error) { return createFail(...) }
resultPipeCatch(error) ==
  createFail(Str(IF instanceofError(error) THEN error.message
                 ELSE StringOf(error)))

resultPipeInvoke_Uncaught(chain, i, a) ==
  LET r == CallResultFn(chain[i], a)
  IN  IF r.type = "throw"
      THEN Finished(Reject(r.value), <<Call(i, a)>>)
      ELSE Suspended(i, PromiseResolve(r.value), Call(i, a))

\* acc = await Promise.resolve(fn(...a)), inside the try block
resultPipeInvoke(chain, i, a) ==
  LET r == CallResultFn(chain[i], a)
  IN  IF r.type = "throw"
      THEN Finished(Resolve(resultPipeCatch(r.value)), <<Call(i, a)>>)
      ELSE Suspended(i, PromiseResolve(r.value), Call(i, a))

\* let acc = await Promise.resolve(fn1())
resultPipeStart(chain) == resultPipeInvoke(chain, 1, <<>>)

resultPipeResume_NoShortCircuit(chain, i, promise) ==
  IF promise.state = "rejected"
  THEN Finished(Resolve(resultPipeCatch(promise.value)), <<>>)
  ELSE LET acc == promise.value
       IN  IF i = Len(chain) THEN Finished(Resolve(acc), <<>>)
           ELSE resultPipeInvoke(chain, i + 1, <<Get(acc, "output")>>)

resultPipeResume_PassResult(chain, i, promise) ==
  IF promise.state = "rejected"
  THEN Finished(Resolve(resultPipeCatch(promise.value)), <<>>)
  ELSE LET acc == promise.value
       IN  IF i = Len(chain) THEN Finished(Resolve(acc), <<>>)
           ELSE IF isFail(acc) THEN Finished(Resolve(acc), <<>>)
           ELSE resultPipeInvoke(chain, i + 1, <<acc>>)

resultPipeResume_Uncaught(chain, i, promise) ==
  IF promise.state = "rejected"
  THEN Finished(Reject(promise.value), <<>>)
  ELSE LET acc == promise.value
       IN  IF i = Len(chain) THEN Finished(Resolve(acc), <<>>)
           ELSE IF isFail(acc) THEN Finished(Resolve(acc), <<>>)
           ELSE resultPipeInvoke(chain, i + 1, <<acc.output>>)

\* The body from the point where the promise of step i has settled:
\* a rejection lands in the catch block; otherwise the loop goes on.
resultPipeResume(chain, i, promise) ==
  IF promise.state = "rejected"
  THEN Finished(Resolve(resultPipeCatch(promise.value)), <<>>)
  ELSE LET acc == promise.value
       IN  IF i = Len(chain) THEN Finished(Resolve(acc), <<>>)
           ELSE IF isFail(acc) THEN Finished(Resolve(acc), <<>>)
           ELSE resultPipeInvoke(chain, i + 1, <<acc.output>>)

\* The state after a run of the body that ends in frame f.
Enter(f) ==
  /\ pc' = f.pc
  /\ idx' = f.idx
  /\ awaited' = f.awaited
  /\ outcome' = f.outcome
  /\ inflight' = (inflight \ {idx}) \cup f.inflight

ResultPipeCall ==
  /\ op = "none"
  /\ op' = "resultPipe"
  /\ LET f == resultPipeStart(fns)
     IN  Enter(f) /\ calls' = f.calls
  /\ UNCHANGED <<fns, initial, args, conditionals, ref>>

ResultPipeResume ==
  /\ op = "resultPipe" /\ pc = "await" /\ awaited.state # "pending"
  /\ LET f == resultPipeResume(fns, idx, awaited)
     IN  Enter(f) /\ calls' = calls \o f.calls
  /\ UNCHANGED <<fns, initial, args, conditionals, op, ref>>

\* The environment settles the promise a pipe is suspended on.
Settle ==
  /\ pc = "await" /\ awaited.state = "pending"
  /\ awaited' = [awaited EXCEPT !.state = awaited.then]
  /\ UNCHANGED <<fns, initial, args, conditionals, op, pc, idx, inflight,
                 calls, outcome, ref>>

-----------------------------------------------------------------------------
(***************************************************************************)
(* rpipeAsync and rpipe (fp/rpipe.ts).  rpipeAsync has the contract of     *)
(* resultPipe; rpipe is its synchronous analogue and returns the Result    *)
(* directly.  A thrown value becomes createFail(message or string form).   *)
(***************************************************************************)
rpipeCatch(error) ==
  createFail(Str(IF instanceofError(error) THEN error.message
                 ELSE StringOf(error)))

rpipeAsyncInvoke(chain, i, a) ==
  LET r == CallResultFn(chain[i], a)
  IN  IF r.type = "throw"
      THEN Finished(Resolve(rpipeCatch(r.value)), <<Call(i, a)>>)
      ELSE Suspended(i, PromiseResolve(r.value), Call(i, a))

rpipeAsyncResume(chain, i, promise) ==
  IF promise.state = "rejected"
  THEN Finished(Resolve(rpipeCatch(promise.value)), <<>>)
  ELSE LET acc == promise.value
       IN  IF isFail(acc) \/ i = Len(chain) THEN Finished(Resolve(acc), <<>>)
           ELSE rpipeAsyncInvoke(chain, i + 1, <<acc.output>>)

RECURSIVE rpipeFrom(_, _, _, _)
\* rpipe from the call of step i with argument list a; log holds the
\* invocations made so far.
rpipeFrom(chain, i, a, log) ==
  LET r == CallResultFn(chain[i], a)
      log2 == Append(log, Call(i, a))
  IN  IF r.type = "throw"
      THEN [outcome |-> Return(rpipeCatch(r.value)), calls |-> log2]
      ELSE IF isFail(r.value) \/ i = Len(chain)
      THEN [outcome |-> Return(r.value), calls |-> log2]
      ELSE rpipeFrom(chain, i + 1, <<r.value.output>>, log2)

rpipe(chain) == rpipeFrom(chain, 1, <<>>, <<>>)

NoRef == [outcome |-> NoOutcome, calls |-> <<>>]

\* The caller keeps the Result of resultPipe and hands the same steps to
\* rpipeAsync.
RpipeAsyncCall ==
  /\ op = "resultPipe" /\ pc = "done"
  /\ ref' = [outcome |-> outcome, calls |-> calls]
  /\ op' = "rpipeAsync"
  /\ LET f == rpipeAsyncInvoke(fns, 1, <<>>)
     IN  Enter(f) /\ calls' = f.calls
  /\ UNCHANGED <<fns, initial, args, conditionals>>

RpipeAsyncResume ==
  /\ op = "rpipeAsync" /\ pc = "await" /\ awaited.state # "pending"
  /\ LET f == rpipeAsyncResume(fns, idx, awaited)
     IN  Enter(f) /\ calls' = calls \o f.calls
  /\ UNCHANGED <<fns, initial, args, conditionals, op, ref>>

\* The caller keeps the Result of resultPipe and hands the same steps, none
\* of which is pending, to rpipe.
RpipeCall ==
  /\ op = "resultPipe" /\ pc = "done"
  /\ AllSync(fns)
  /\ ref' = [outcome |-> outcome, calls |-> calls]
  /\ op' = "rpipe"
  /\ LET r == rpipe(fns)
     IN  /\ outcome' = r.outcome
         /\ calls' = r.calls
  /\ pc' = "done"
  /\ UNCHANGED <<fns, initial, args, conditionals, idx, awaited, inflight>>

-----------------------------------------------------------------------------
(***************************************************************************)
(* pipe and pipeAsync.  Their steps are plain functions: they return a    *)
(* value (or, in mode "pending", a promise of it) or throw.                *)
(***************************************************************************)
PlainKinds == {"inc", "dbl", "throwError", "throwString"}

PlainStepOutcome(kind, a) ==
  CASE kind = "inc" -> Return(Inc(a))
    [] kind = "dbl" -> Return(Dbl(a))
    [] kind = "retFail" -> Return(createFail(Str("failed")))
    [] kind \in ThrowKinds -> Throw(Thrown(kind))

\* The call expression fn(...a) of a plain step.
CallPlainFn(fn, a) ==
  IF fn.mode = "sync" THEN PlainStepOutcome(fn.kind, a)
  ELSE Return(Pending(PlainStepOutcome(fn.kind, a)))

\* The evaluation of an expression: its value, or the exception it raised,
\* and the invocations it made.
Evaluated(v) == [type |-> "return", value |-> v, calls |-> <<>>]

pipeApply_Swallow(chain, i, e) ==
  IF e.type = "throw" THEN e
  ELSE LET r == CallPlainFn(chain[i], <<e.value>>)
       IN  [type |-> "return",
            value |-> IF r.type = "throw" THEN Undefined ELSE r.value,
            calls |-> Append(e.calls, Call(i, <<e.value>>))]

\* fns[i](e): the argument expression is evaluated first; when it raises,
\* the exception propagates and fns[i] is not called.
pipeApply(chain, i, e) ==
  IF e.type = "throw" THEN e
  ELSE LET r == CallPlainFn(chain[i], <<e.value>>)
       IN  [type |-> r.type, value |-> r.value,
            calls |-> Append(e.calls, Call(i, <<e.value>>))]

RECURSIVE pipeReduce(_, _, _)
\* fns.reduce((acc, fn) => fn(acc), initial), from element i on
pipeReduce(chain, i, e) ==
  IF i > Len(chain) \/ e.type = "throw" THEN e
  ELSE pipeReduce(chain, i + 1, pipeApply(chain, i, e))

pipe_Case2Swapped(init, chain) ==
  LET e == Evaluated(init)
  IN  CASE Len(chain) = 0 -> e
        [] Len(chain) = 1 -> pipeApply(chain, 1, e)
        [] Len(chain) = 2 -> pipeApply(chain, 1, pipeApply(chain, 2, e))
        [] OTHER -> pipeReduce(chain, 1, e)

pipe(init, chain) ==
  LET e == Evaluated(init)
  IN  CASE Len(chain) = 0 -> e
        [] Len(chain) = 1 -> pipeApply(chain, 1, e)
        [] Len(chain) = 2 -> pipeApply(chain, 2, pipeApply(chain, 1, e))
        [] Len(chain) = 3 ->
             pipeApply(chain, 3, pipeApply(chain, 2, pipeApply(chain, 1, e)))
        [] Len(chain) = 4 ->
             pipeApply(chain, 4,
               pipeApply(chain, 3, pipeApply(chain, 2, pipeApply(chain, 1, e))))
        [] OTHER -> pipeReduce(chain, 1, e)

PipeCall ==
  /\ op = "none"
  /\ AllSync(fns) /\ ~IsPromise(initial)
  /\ op' = "pipe"
  /\ LET e == pipe(initial, fns)
     IN  /\ outcome' = [type |-> e.type, value |-> e.value]
         /\ calls' = e.calls
  /\ pc' = "done"
  /\ UNCHANGED <<fns, initial, args, conditionals, idx, awaited, inflight, ref>>

\* let result = await initial
pipeAsyncStart(init) ==
  [pc |-> "await", idx |-> 0, awaited |-> PromiseResolve(init),
   outcome |-> NoOutcome, calls |-> <<>>, inflight |-> {0}]

pipeAsyncInvoke_NoAwait(chain, i, a) ==
  LET r == CallPlainFn(chain[i], a)
  IN  IF r.type = "throw" THEN Finished(Reject(r.value), <<Call(i, a)>>)
      ELSE IF i < Len(chain) /\ IsPromise(r.value)
      THEN LET r2 == CallPlainFn(chain[i + 1], <<r.value>>)
           IN  [pc |-> "await", idx |-> i + 1,
                awaited |-> PromiseResolve(r2.value), outcome |-> NoOutcome,
                calls |-> <<Call(i, a), Call(i + 1, <<r.value>>)>>,
                inflight |-> {i, i + 1}]
      ELSE Suspended(i, PromiseResolve(r.value), Call(i, a))

\* result = await fn(result): a throw inside the async function rejects
\* the promise it returned.
pipeAsyncInvoke(chain, i, a) ==
  LET r == CallPlainFn(chain[i], a)
  IN  IF r.type = "throw" THEN Finished(Reject(r.value), <<Call(i, a)>>)
      ELSE Suspended(i, PromiseResolve(r.value), Call(i, a))

pipeAsyncResume_SkipRejected(chain, i, promise) ==
  IF i = Len(chain)
  THEN Finished(Resolve(IF promise.state = "rejected" THEN Undefined
                        ELSE promise.value), <<>>)
  ELSE pipeAsyncInvoke(chain, i + 1,
         <<IF promise.state = "rejected" THEN Undefined ELSE promise.value>>)

\* The body from the point where the awaited promise (of the initial value
\* when i = 0, of stage i otherwise) has settled.
pipeAsyncResume(chain, i, promise) ==
  IF promise.state = "rejected" THEN Finished(Reject(promise.value), <<>>)
  ELSE IF i = Len(chain) THEN Finished(Resolve(promise.value), <<>>)
  ELSE pipeAsyncInvoke(chain, i + 1, <<promise.value>>)

PipeAsyncCall ==
  /\ op = "none"
  /\ op' = "pipeAsync"
  /\ LET f == pipeAsyncStart(initial)
     IN  Enter(f) /\ calls' = f.calls
  /\ UNCHANGED <<fns, initial, args, conditionals, ref>>

PipeAsyncResume ==
  /\ op = "pipeAsync" /\ pc = "await" /\ awaited.state # "pending"
  /\ LET f == pipeAsyncResume(fns, idx, awaited)
     IN  Enter(f) /\ calls' = calls \o f.calls
  /\ UNCHANGED <<fns, initial, args, conditionals, op, ref>>

\* The initial values a caller hands to pipe / pipeAsync.
PlainInitials == {Num(1), Num(3)}
PendingInitials ==
  {Pending(Return(Num(1))), Pending(Throw(ErrWithStack)),
   Pending(Throw(Str("string error")))}

\* Chains of synchronous steps (pipe, pipeAsync) of up to MaxFns steps and
\* chains with pending steps (pipeAsync) of up to MaxStages steps.
PlainChains ==
  UNION {[1..n -> [mode : {"sync"}, kind : PlainKinds]] : n \in 0..MaxFns}
    \cup UNION {[1..n -> Steps(PlainKinds)] : n \in 0..MaxStages}

InitPipe ==
  /\ fns \in PlainChains
  /\ initial \in PlainInitials \cup PendingInitials
  /\ args = Undefined
  /\ conditionals = <<>>
  /\ op = "none"
  /\ pc = "idle"
  /\ idx = 0
  /\ awaited = NoPromise
  /\ inflight = {}
  /\ calls = <<>>
  /\ outcome = NoOutcome
  /\ ref = NoRef

\* pipe over chains in which a step may return a Failure.
FailingKinds == {"dbl", "retFail"}

InitPipeFail ==
  /\ fns \in UNION {[1..n -> [mode : {"sync"}, kind : FailingKinds]] :
                      n \in 0..MaxFns}
  /\ initial \in PlainInitials
  /\ args = Undefined
  /\ conditionals = <<>>
  /\ op = "none"
  /\ pc = "idle"
  /\ idx = 0
  /\ awaited = NoPromise
  /\ inflight = {}
  /\ calls = <<>>
  /\ outcome = NoOutcome
  /\ ref = NoRef

SpecPipeFail == InitPipeFail /\ [][PipeCall]_vars

NextPipe ==
  \/ PipeCall
  \/ PipeAsyncCall
  \/ PipeAsyncResume
  \/ Settle

SpecPipe == InitPipe /\ [][NextPipe]_vars

-----------------------------------------------------------------------------
(***************************************************************************)
(* cond and rcond.  A conditional is a pair [condition, action] of         *)
(* descriptors; both functions are called with the input alone.            *)
(***************************************************************************)
ConditionKinds == {"gt10", "gt0", "lt0", "throwError"}
CondActionKinds == {"double", "label", "throwError"}
RcondActionKinds == {"succDouble", "failRich", "throwError"}

\* conditional.condition(args)
CallCondition(kind, input) ==
  CASE kind = "gt10" -> Return(input.num > 10)
    [] kind = "gt0" -> Return(input.num > 0)
    [] kind = "lt0" -> Return(input.num < 0)
    [] kind = "throwError" -> Throw(ErrWithStack)

\* conditional.action(args)
CallAction(kind, input) ==
  CASE kind = "double" -> Return(Num(input.num * 2))
    [] kind = "label" -> Return(Str("pos"))
    [] kind = "succDouble" -> Return(createSuccess(Num(input.num * 2)))
    [] kind = "failRich" -> Return(RichFail)
    [] kind = "throwError" -> Throw(ErrNoStack)

ConditionCall(i, input) == [fn |-> i, part |-> "condition", args |-> <<input>>]
ActionCall(i, input) == [fn |-> i, part |-> "action", args |-> <<input>>]

RECURSIVE findFrom(_, _, _, _)
\* conditionals.find((c) => c.condition(args)) from element i on: the index
\* of the first element whose condition holds (0 for undefined), or the
\* exception a condition raised.
findFrom(list, input, i, log) ==
  IF i > Len(list) THEN [type |-> "return", value |-> 0, calls |-> log]
  ELSE LET r == CallCondition(list[i].condition, input)
           log2 == Append(log, ConditionCall(i, input))
       IN  IF r.type = "throw"
           THEN [type |-> "throw", value |-> r.value, calls |-> log2]
           ELSE IF r.value
           THEN [type |-> "return", value |-> i, calls |-> log2]
           ELSE findFrom(list, input, i + 1, log2)

RECURSIVE findLastFrom(_, _, _, _)
findLastFrom(list, input, i, log) ==
  IF i < 1 THEN [type |-> "return", value |-> 0, calls |-> log]
  ELSE LET r == CallCondition(list[i].condition, input)
           log2 == Append(log, ConditionCall(i, input))
       IN  IF r.type = "throw"
           THEN [type |-> "throw", value |-> r.value, calls |-> log2]
           ELSE IF r.value
           THEN [type |-> "return", value |-> i, calls |-> log2]
           ELSE findLastFrom(list, input, i - 1, log2)

find_Last(list, input) == findLastFrom(list, input, Len(list), <<>>)

RECURSIVE findAllFrom(_, _, _, _, _)
findAllFrom(list, input, i, hit, log) ==
  IF i > Len(list) THEN [type |-> "return", value |-> hit, calls |-> log]
  ELSE LET r == CallCondition(list[i].condition, input)
           log2 == Append(log, ConditionCall(i, input))
       IN  IF r.type = "throw"
           THEN [type |-> "throw", value |-> r.value, calls |-> log2]
           ELSE findAllFrom(list, input, i + 1,
                            IF hit = 0 /\ r.value THEN i ELSE hit, log2)

find_Exhaustive(list, input) == findAllFrom(list, input, 1, 0, <<>>)

find(list, input) == findFrom(list, input, 1, <<>>)

\* new Error("No conditional found"), with the stack the host records
NoConditionalError ==
  ErrorObject("Error", "No conditional found",
              Str("Error: No conditional found at cond"), Undefined)

applyAction_Guarded(list, input, f) ==
  LET r == CallAction(list[f.value].action, input)
  IN  [type |-> "return",
       value |-> IF r.type = "throw"
                 THEN createFail(createErrorProperties(r.value, ""))
                 ELSE r.value,
       calls |-> Append(f.calls, ActionCall(f.value, input))]

\* return conditional.action(args)
applyAction(list, input, f) ==
  LET r == CallAction(list[f.value].action, input)
  IN  [type |-> r.type, value |-> r.value,
       calls |-> Append(f.calls, ActionCall(f.value, input))]

cond_OptionalCall(input, list) ==
  LET f == find(list, input)
  IN  IF f.type = "throw" THEN f
      ELSE IF f.value = 0
      THEN [type |-> "return", value |-> Undefined, calls |-> f.calls]
      ELSE applyAction(list, input, f)

cond(input, list) ==
  LET f == find(list, input)
  IN  IF f.type = "throw" THEN f
      ELSE IF f.value = 0
      THEN [type |-> "throw", value |-> NoConditionalError, calls |-> f.calls]
      ELSE applyAction(list, input, f)

rcond_Raises(input, list) ==
  LET f == find(list, input)
  IN  IF f.type = "throw" THEN f
      ELSE IF f.value = 0
      THEN [type |-> "throw", value |-> NoConditionalError, calls |-> f.calls]
      ELSE applyAction(list, input, f)

rcond(input, list) ==
  LET f == find(list, input)
  IN  IF f.type = "throw" THEN f
      ELSE IF f.value = 0
      THEN [type |-> "return",
            value |-> createFail(Str("No conditional found")),
            calls |-> f.calls]
      ELSE applyAction(list, input, f)

ActionsAmong(list, kinds) ==
  \A i \in 1..Len(list) : list[i].action \in kinds

CondCall ==
  /\ op = "none"
  /\ ActionsAmong(conditionals, CondActionKinds)
  /\ op' = "cond"
  /\ LET r == cond(args, conditionals)
     IN  /\ outcome' = [type |-> r.type, value |-> r.value]
         /\ calls' = r.calls
  /\ pc' = "done"
  /\ UNCHANGED <<fns, initial, args, conditionals, idx, awaited, inflight, ref>>

\* rcond is typed to take actions that return a Result.
RcondCall ==
  /\ op = "none"
  /\ ActionsAmong(conditionals, RcondActionKinds)
  /\ op' = "rcond"
  /\ LET r == rcond(args, conditionals)
     IN  /\ outcome' = [type |-> r.type, value |-> r.value]
         /\ calls' = r.calls
  /\ pc' = "done"
  /\ UNCHANGED <<fns, initial, args, conditionals, idx, awaited, inflight, ref>>

CondInputs == {Num(-3), Num(0), Num(5), Num(20)}

ConditionalLists ==
  UNION {[1..n -> [condition : ConditionKinds, action : CondActionKinds]]
           \cup [1..n -> [condition : ConditionKinds,
                          action : RcondActionKinds]] : n \in 0..MaxConds}

InitCond ==
  /\ fns = <<>>
  /\ initial = Undefined
  /\ args \in CondInputs
  /\ conditionals \in ConditionalLists
  /\ op = "none"
  /\ pc = "idle"
  /\ idx = 0
  /\ awaited = NoPromise
  /\ inflight = {}
  /\ calls = <<>>
  /\ outcome = NoOutcome
  /\ ref = NoRef

NextCond ==
  \/ CondCall
  \/ RcondCall

SpecCond == InitCond /\ [][NextCond]_vars

-----------------------------------------------------------------------------
Init ==
  /\ fns \in ResultChains
  /\ initial = Undefined
  /\ args = Undefined
  /\ conditionals = <<>>
  /\ op = "none"
  /\ pc = "idle"
  /\ idx = 0
  /\ awaited = NoPromise
  /\ inflight = {}
  /\ calls = <<>>
  /\ outcome = NoOutcome
  /\ ref = NoRef

Next ==
  \/ ResultPipeCall
  \/ ResultPipeResume
  \/ Settle
  \/ RpipeAsyncCall
  \/ RpipeAsyncResume
  \/ RpipeCall

Spec == Init /\ [][Next]_vars

-----------------------------------------------------------------------------
(***************************************************************************)
(* Properties of resultPipe, rpipe and rpipeAsync (specification Spec).    *)
(***************************************************************************)
SuccessKinds == {"one", "inc", "dbl"}

\* The first step that does not return a Success (0 when all of them do).
FirstStop(chain) ==
  LET S == {i \in 1..Len(chain) : chain[i].kind \notin SuccessKinds}
  IN  IF S = {} THEN 0 ELSE CHOOSE i \in S : \A j \in S : i <= j

\* The log holds steps 1, 2, ... in order, each once, and none beyond k.
InOrderUpTo(k) ==
  /\ Len(calls) <= k
  /\ \A i \in 1..Len(calls) : calls[i].fn = i

\* The Failure a failing step of the given kind returns, written out.
ReturnedFailure(kind) ==
  IF kind = "failString"
  THEN [success |-> FALSE, error |-> "err"]
  ELSE [success |-> FALSE, error |-> "rich failure", message |-> Str("short"),
        stack |-> Str("at validate"), cause |-> Num(7),
        name |-> Str("ValidationError")]

\* C1: when step k is the first step whose Result is a Failure, resultPipe
\* invokes steps 1..k once each in order, never invokes a step after k, and
\* resolves to exactly that Failure, every field unchanged.
C1_StopsAtFirstFailure ==
  (op = "resultPipe" /\ FirstStop(fns) > 0
     /\ fns[FirstStop(fns)].kind \in FailKinds) =>
    LET k == FirstStop(fns)
    IN  /\ InOrderUpTo(k)
        /\ outcome.type \in {"none", "resolve"}
        /\ pc = "done" =>
             /\ Len(calls) = k
             /\ outcome = Resolve(ReturnedFailure(fns[k].kind))

C1_Witness ==
  /\ op = "resultPipe" /\ pc = "done"
  /\ Len(fns) = 3 /\ FirstStop(fns) = 2
  /\ fns[2] = [mode |-> "pending", kind |-> "failRich"]
  /\ Len(calls) = 2
  /\ outcome.value.name = Str("ValidationError")

\* The output of the Success that step i returned for the arguments it got.
StepOutput(i) == ResultStepOutcome(fns[i].kind, calls[i].args).value.output

\* C2: when every step returns (or resolves to) a Success, step 1 is called
\* with no argument, step i+1 with exactly the output of step i, and the
\* pipe resolves to the Result of the last step.
C2_ThreadsOutputs ==
  (op = "resultPipe" /\ FirstStop(fns) = 0) =>
    /\ InOrderUpTo(Len(fns))
    /\ \A i \in 1..Len(calls) :
         calls[i].args = IF i = 1 THEN <<>> ELSE <<StepOutput(i - 1)>>
    /\ pc = "done" =>
         /\ Len(calls) = Len(fns)
         /\ outcome = Resolve(createSuccess(StepOutput(Len(fns))))
         /\ (Len(fns) = 3 /\ fns[2].kind = "inc" /\ fns[3].kind = "dbl") =>
              outcome.value = [success |-> TRUE, output |-> Num(4)]

C2_Witness ==
  /\ op = "resultPipe" /\ pc = "done"
  /\ Len(fns) = 3 /\ FirstStop(fns) = 0
  /\ fns[2] = [mode |-> "pending", kind |-> "inc"]
  /\ fns[3] = [mode |-> "sync", kind |-> "dbl"]
  /\ calls[3].args = <<Num(2)>>
  /\ outcome.value.output = Num(4)

\* The message of a thrown Error, the string form of any other thrown value.
MessageOrString(kind) ==
  CASE kind = "throwError" -> "boom"
    [] kind = "throwBareError" -> "bad input"
    [] kind = "throwString" -> "string error"
    [] kind = "throwNumber" -> "123"

\* C3: when a step of resultPipe or rpipe throws (or its promise rejects),
\* nothing escapes: the pipe yields a Failure whose error is the message of
\* the thrown Error, or the string form of any other thrown value, and no
\* step after the throwing one is invoked.
C3_ThrowBecomesFailure ==
  (op \in {"resultPipe", "rpipe"} /\ FirstStop(fns) > 0
     /\ fns[FirstStop(fns)].kind \in ThrowKinds) =>
    LET k == FirstStop(fns)
    IN  /\ InOrderUpTo(k)
        /\ outcome.type \notin {"reject", "throw"}
        /\ pc = "done" =>
             /\ Len(calls) = k
             /\ outcome.type = IF op = "rpipe" THEN "return" ELSE "resolve"
             /\ isFail(outcome.value)
             /\ ~isSuccess(outcome.value)
             /\ outcome.value.error = MessageOrString(fns[k].kind)

C3_Witness ==
  /\ op = "resultPipe" /\ pc = "done"
  /\ Len(fns) = 3 /\ FirstStop(fns) = 2
  /\ fns[2] = [mode |-> "pending", kind |-> "throwNumber"]
  /\ Len(calls) = 2
  /\ outcome.value.error = "123"

OptionalKeys == {"message", "stack", "cause", "name"}

\* C4 as stated: the Failure for a thrown x is the one guardAsync gives,
\* createFail(errorProperties(x)): error is formatError(x) and message,
\* stack, name and cause are those of x.
C4_AsStated ==
  (op = "resultPipe" /\ pc = "done" /\ FirstStop(fns) > 0
     /\ fns[FirstStop(fns)].kind \in ThrowKinds) =>
    LET x == Thrown(fns[FirstStop(fns)].kind)
        g == createFail(createErrorProperties(x, ""))
    IN  /\ outcome.value.error = g.error
        /\ \A key \in OptionalKeys :
             Get(outcome.value, key) = Get(g, key)

\* C4 (amended): the Failure for a thrown x holds only an error string, the
\* message of x when x is an Error (never its stack) and String(x)
\* otherwise; message, stack, cause and name are absent.
C4_FailureHasOnlyMessageText ==
  (op = "resultPipe" /\ pc = "done" /\ FirstStop(fns) > 0
     /\ fns[FirstStop(fns)].kind \in ThrowKinds) =>
    LET x == Thrown(fns[FirstStop(fns)].kind)
    IN  /\ outcome.value =
             [success |-> FALSE,
              error |-> IF x.t = "Error" THEN x.message ELSE StringOf(x)]
        /\ \A key \in OptionalKeys : Get(outcome.value, key) = Undefined

C4_Witness ==
  /\ op = "resultPipe" /\ pc = "done"
  /\ FirstStop(fns) = 2
  /\ fns[2] = [mode |-> "sync", kind |-> "throwError"]
  /\ outcome.value.error = "boom"
  /\ Thrown("throwError").stack = Str("Error: boom at step")
  /\ DOMAIN outcome.value = {"success", "error"}

\* C5: on the same steps rpipeAsync resolves to the Result resultPipe
\* resolved to, and rpipe (no step pending) returns that Result directly;
\* both invoke the same steps with the same arguments in the same order.
C5_RpipeAgreesWithResultPipe ==
  (op \in {"rpipe", "rpipeAsync"} /\ pc = "done") =>
    /\ ref.outcome.type = "resolve"
    /\ outcome.type = IF op = "rpipe" THEN "return" ELSE "resolve"
    /\ outcome.value = ref.outcome.value
    /\ calls = ref.calls

C5_Witness ==
  /\ op = "rpipe" /\ pc = "done"
  /\ Len(fns) = 3 /\ FirstStop(fns) = 2
  /\ fns[2].kind = "throwError"
  /\ outcome.type = "return"
  /\ ref.outcome.value = outcome.value
  /\ Len(calls) = 2

-----------------------------------------------------------------------------
(***************************************************************************)
(* Properties of pipe and pipeAsync (specification SpecPipe).              *)
(***************************************************************************)
\* The first step that throws or rejects (0 when none does).
FirstThrow(chain) ==
  LET S == {i \in 1..Len(chain) : chain[i].kind \in ThrowKinds}
  IN  IF S = {} THEN 0 ELSE CHOOSE i \in S : \A j \in S : i <= j

InitialRejects == IsPromise(initial) /\ initial.then = "rejected"

\* The value of a total step function of the given kind at v.
PlainApply(kind, v) ==
  IF kind = "inc" THEN Num(v.num + 1) ELSE Num(v.num * 2)

RECURSIVE AccAt(_)
\* acc_0 is the (resolved) initial value, acc_i = step_i(acc_{i-1}).
AccAt(i) ==
  IF i = 0 THEN (IF IsPromise(initial) THEN initial.value ELSE initial)
  ELSE PlainApply(fns[i].kind, AccAt(i - 1))

\* C6: for total steps, pipe invokes each step once, left to right, with
\* acc_0 = initial and acc_i = step_i(acc_{i-1}), and returns acc_n; with
\* zero steps it returns initial.  Holds beyond the four unrolled cases.
C6_PipeAppliesLeftToRight ==
  (op = "pipe" /\ FirstThrow(fns) = 0) =>
    /\ pc = "done"
    /\ Len(calls) = Len(fns)
    /\ \A i \in 1..Len(fns) : calls[i] = Call(i, <<AccAt(i - 1)>>)
    /\ outcome = Return(AccAt(Len(fns)))
    /\ Len(fns) = 0 => outcome.value = initial
    /\ (initial = Num(3) /\ Len(fns) = 2 /\ fns[1].kind = "inc"
          /\ fns[2].kind = "dbl") => outcome.value = Num(8)

C6_Witness ==
  /\ op = "pipe" /\ pc = "done"
  /\ Len(fns) = 5 /\ FirstThrow(fns) = 0
  /\ initial = Num(3)
  /\ \A i \in 1..5 : fns[i].kind = IF i \in {2, 5} THEN "dbl" ELSE "inc"
  /\ outcome = Return(Num(20))
  /\ Len(calls) = 5

\* C7: when step k of pipe throws x, pipe raises exactly x and steps after
\* k are never invoked, whatever the number of steps.
C7_PipePropagatesThrow ==
  (op = "pipe" /\ FirstThrow(fns) > 0) =>
    LET k == FirstThrow(fns)
    IN  /\ pc = "done"
        /\ outcome = Throw(Thrown(fns[k].kind))
        /\ Len(calls) = k
        /\ \A i \in 1..k : calls[i].fn = i

C7_Witness ==
  /\ op = "pipe" /\ pc = "done"
  /\ Len(fns) = 3 /\ FirstThrow(fns) = 2
  /\ fns[2].kind = "throwError"
  /\ outcome.type = "throw"
  /\ outcome.value = ErrWithStack
  /\ Len(calls) = 2

\* C8: pipeAsync awaits the initial value first; while it awaits stage i it
\* has invoked stages 1..i only, so at most one stage is in flight; every
\* stage receives the resolved value of its predecessor; the call resolves
\* to the resolved value of the last stage (of the initial value when
\* there is no stage).
C8_PipeAsyncStrictOrder ==
  op = "pipeAsync" =>
    /\ Cardinality(inflight) <= 1
    /\ pc = "await" => (Len(calls) = idx /\ inflight = {idx})
    /\ \A i \in 1..Len(calls) : calls[i] = Call(i, <<AccAt(i - 1)>>)
    /\ (pc = "done" /\ FirstThrow(fns) = 0 /\ ~InitialRejects) =>
         /\ Len(calls) = Len(fns)
         /\ outcome = Resolve(AccAt(Len(fns)))

C8_Witness ==
  /\ op = "pipeAsync" /\ pc = "done"
  /\ IsPromise(initial) /\ initial.value = Num(1)
  /\ Len(fns) = 3 /\ FirstThrow(fns) = 0
  /\ fns[1] = [mode |-> "pending", kind |-> "inc"]
  /\ fns[2] = [mode |-> "pending", kind |-> "dbl"]
  /\ fns[3] = [mode |-> "sync", kind |-> "inc"]
  /\ calls[3].args = <<Num(4)>>
  /\ outcome = Resolve(Num(5))

\* C9: when the initial value or a stage of pipeAsync rejects (or a stage
\* throws) with x, pipeAsync rejects with x and no later stage is invoked.
C9_PipeAsyncRejects ==
  (op = "pipeAsync" /\ (InitialRejects \/ FirstThrow(fns) > 0)) =>
    LET k == IF InitialRejects THEN 0 ELSE FirstThrow(fns)
        x == IF InitialRejects THEN initial.value ELSE Thrown(fns[k].kind)
    IN  /\ Len(calls) <= k
        /\ outcome.type \in {"none", "reject"}
        /\ pc = "done" => (outcome = Reject(x) /\ Len(calls) = k)

C9_Witness ==
  /\ op = "pipeAsync" /\ pc = "done"
  /\ ~InitialRejects
  /\ Len(fns) = 3 /\ FirstThrow(fns) = 2
  /\ fns[2] = [mode |-> "pending", kind |-> "throwError"]
  /\ outcome = Reject(ErrWithStack)
  /\ Len(calls) = 2

-----------------------------------------------------------------------------
(***************************************************************************)
(* Properties of cond and rcond (specification SpecCond).                  *)
(***************************************************************************)
\* Whether a condition of the given kind is true of the number n.
IsTrueOf(kind, n) ==
  CASE kind = "gt10" -> n > 10
    [] kind = "gt0" -> n > 0
    [] kind = "lt0" -> n < 0
    [] OTHER -> FALSE

\* The smallest index whose condition is true of the input (0 when none).
FirstTrue ==
  LET S == {i \in 1..Len(conditionals) :
              IsTrueOf(conditionals[i].condition, args.num)}
  IN  IF S = {} THEN 0 ELSE CHOOSE i \in S : \A j \in S : i <= j

\* The conditions before index i are total: none of them throws.
NoThrowBefore(i) ==
  \A j \in 1..(i - 1) : conditionals[j].condition # "throwError"

\* action(input), written out: what it returns or throws.
ActionOf(kind, n) ==
  CASE kind = "double" -> Return(Num(2 * n))
    [] kind = "label" -> Return(Str("pos"))
    [] kind = "succDouble" -> Return([success |-> TRUE, output |-> Num(2 * n)])
    [] kind = "failRich" -> Return(ReturnedFailure("failRich"))
    [] kind = "throwError" -> Throw(ErrNoStack)

ActionCalls == SelectSeq(calls, LAMBDA c : c.part = "action")

ConditionCalls == SelectSeq(calls, LAMBDA c : c.part = "condition")

\* The smallest index whose condition is true of the input or throws
\* (0 when every condition returns false).
FirstDecisive ==
  LET S == {i \in 1..Len(conditionals) :
              \/ IsTrueOf(conditionals[i].condition, args.num)
              \/ conditionals[i].condition = "throwError"}
  IN  IF S = {} THEN 0 ELSE CHOOSE i \in S : \A j \in S : i <= j

\* C11: cond and rcond scan lazily: the conditions evaluated are conditions
\* 1, 2, ..., m in listed order, each once, all with the input; when
\* condition i is the first to return true, m = i, so that no condition
\* after i is evaluated; every evaluation precedes the action's call.
C11_LazyScan ==
  (op \in {"cond", "rcond"}) =>
    LET m == Len(ConditionCalls)
    IN  /\ m <= Len(conditionals)
        /\ \A j \in 1..m : ConditionCalls[j] = ConditionCall(j, args)
        /\ \A j \in 1..m : calls[j] = ConditionCalls[j]
        /\ m = IF FirstDecisive = 0 THEN Len(conditionals) ELSE FirstDecisive
        /\ (FirstTrue > 0 /\ NoThrowBefore(FirstTrue)) => m = FirstTrue

C11_Witness ==
  /\ op = "cond" /\ pc = "done"
  /\ args = Num(5)
  /\ Len(conditionals) = 3
  /\ conditionals[1].condition = "lt0"
  /\ conditionals[2].condition = "gt0"
  /\ conditionals[3].condition = "gt0"
  /\ ConditionCalls = <<ConditionCall(1, Num(5)), ConditionCall(2, Num(5))>>
  /\ Len(calls) = 3

\* No condition of the list is true of the input, and none throws.
NoneTrue ==
  \A i \in 1..Len(conditionals) :
    /\ conditionals[i].condition # "throwError"
    /\ ~IsTrueOf(conditionals[i].condition, args.num)

Absent(obj, key) == Get(obj, key) = Undefined

\* C13: when no condition is true of the input (the empty list included),
\* rcond does not throw: it returns a Failure whose error is
\* "No conditional found" and whose message, stack, cause and name are
\* absent, after evaluating every condition once, and invokes no action.
C13_RcondNoMatchFails ==
  (op = "rcond" /\ NoneTrue) =>
    /\ pc = "done"
    /\ outcome.type = "return"
    /\ isFail(outcome.value) /\ ~isSuccess(outcome.value)
    /\ outcome.value = [success |-> FALSE, error |-> "No conditional found"]
    /\ \A key \in OptionalKeys : Absent(outcome.value, key)
    /\ calls = [j \in 1..Len(conditionals) |-> ConditionCall(j, args)]
    /\ ActionCalls = <<>>

C13_Witness ==
  /\ op = "rcond" /\ pc = "done"
  /\ args = Num(0)
  /\ Len(conditionals) = 2
  /\ NoneTrue
  /\ outcome = Return([success |-> FALSE, error |-> "No conditional found"])
  /\ Len(calls) = 2

-----------------------------------------------------------------------------
(***************************************************************************)
(* The constructors, the error utilities, the try wrappers and the         *)
(* aggregations, called directly.  args holds the arguments of the call,   *)
(* keyed by the parameter names of the function called.                    *)
(***************************************************************************)
\* An Error whose stack is the empty string.
ErrEmptyStack == ErrorObject("Error", "test error", Str(""), Undefined)

\* Values of type unknown.
\* new Error("test error", { cause }) named TestError, cause an Error.
ErrWithCause ==
  ErrorObject("TestError", "test error",
              Str("TestError: test error at Test.fn"), ErrNoStack)

\* A plain object that has the keys of an Error without being one.
PlainNamed ==
  [t |-> "object", message |-> Str("test error"), name |-> Str("CustomError")]

Values ==
  {Num(42), Str("test"), Str(""), Undefined, PlainObject(Str("test error")),
   PlainNamed, ErrWithStack, ErrNoStack, ErrEmptyStack, ErrWithCause}

\* A parameter with a default value: `context = ""`.
DefaultTo(v, d) == IF v = Undefined THEN d ELSE v.str

Contexts == {Undefined, Str(""), Str("Context: ")}

\* The value each optional field of a structured record is supplied with.
Supplied(key) ==
  CASE key = "message" -> Str("Invalid input")
    [] key = "stack" -> Str("at validate")
    [] key = "cause" -> Str("Value out of range")
    [] key = "name" -> Str("ValidationError")

FailRecord(e, keys) ==
  [k \in {"t", "error"} \cup keys |->
     CASE k = "t" -> "object"
       [] k = "error" -> e
       [] OTHER -> Supplied(k)]

ErrorTexts == {"Operation failed", ""}

\* What createFail accepts: a string, or {error, message?, stack?, cause?,
\* name?} with any of the optional fields supplied, the payload of
\* createErrorProperties being such a record.
CreateFailInputs ==
  {Str(e) : e \in ErrorTexts}
    \cup {FailRecord(e, keys) :
            e \in ErrorTexts,
            keys \in SUBSET {"message", "stack", "cause", "name"}}
    \cup {createErrorProperties(v, c) :
            v \in Values, c \in {"", "Context: "}}

\* The functions handed to rTry / rTryAsync.
GuardKinds ==
  {"ret42", "echo", "retUndefined"} \cup ThrowKinds
    \cup {"throwEmptyString", "throwObject"}

GuardStepOutcome(kind, a) ==
  CASE kind = "ret42" -> Return(Num(42))
    [] kind = "echo" -> Return(a[1])
    [] kind = "retUndefined" -> Return(Undefined)
    [] OTHER -> Throw(Thrown(kind))

\* The call expression fn(args)
CallGuardFn(fn, a) ==
  IF fn.mode = "sync" THEN GuardStepOutcome(fn.kind, a)
  ELSE Return(Pending(GuardStepOutcome(fn.kind, a)))

GuardArgs == {Undefined, Num(7)}

ResultValues ==
  {createSuccess(Num(1)), createSuccess(Str("test")), createSuccess(Undefined),
   createFail(Str("error")), createFail(Str("boom")), RichFail}

ResultLists == UNION {[1..n -> ResultValues] : n \in 0..MaxResults}

\* An object used as a mapping: its entries in iteration order.
Mapping(entries) == [entries |-> entries]

MappingKeys == <<"name", "count", "active", "id">>

ResultMappings ==
  UNION {{Mapping([i \in 1..n |-> [key |-> MappingKeys[i], value |-> f[i]]]) :
            f \in [1..n -> ResultValues]} : n \in 0..MaxResults}

rTry_Rethrow(fn, a) ==
  LET r == CallGuardFn(fn, <<a>>)
  IN  IF r.type = "throw" THEN r ELSE Return(createSuccess(r.value))

rTry(fn, a) ==
  LET r == CallGuardFn(fn, <<a>>)
  IN  IF r.type = "throw"
      THEN Return(createFail(createErrorProperties(r.value, "")))
      ELSE Return(createSuccess(r.value))

\* const result = await fn(args), inside the try block
rTryAsyncStart(fn, a) ==
  LET r == CallGuardFn(fn, <<a>>)
  IN  IF r.type = "throw"
      THEN Finished(Resolve(createFail(createErrorProperties(r.value, ""))),
                    <<Call(1, <<a>>)>>)
      ELSE Suspended(1, PromiseResolve(r.value), Call(1, <<a>>))

rTryAsyncResume(promise) ==
  IF promise.state = "rejected"
  THEN Finished(Resolve(createFail(createErrorProperties(promise.value, ""))),
                <<>>)
  ELSE Finished(Resolve(createSuccess(promise.value)), <<>>)

unwrapResults_Reversed(results) ==
  Return([i \in 1..Len(results) |->
            Get(results[Len(results) + 1 - i], "output")])

\* results.map((r) => r.output)
unwrapResults(results) ==
  Return([i \in 1..Len(results) |-> Get(results[i], "output")])

allSuccess_FirstOnly(results) ==
  IF Len(results) = 0 THEN TRUE ELSE isSuccess(results[1])

RECURSIVE everyFrom(_, _)
\* results.every(isSuccess) from element i on
everyFrom(results, i) ==
  IF i > Len(results) THEN TRUE
  ELSE IF ~isSuccess(results[i]) THEN FALSE
  ELSE everyFrom(results, i + 1)

allSuccess(results) == everyFrom(results, 1)

RECURSIVE combineFrom(_, _, _)
combineFrom(results, i, outputs) ==
  IF i > Len(results) THEN createSuccess(outputs)
  ELSE IF isFail(results[i]) THEN results[i]
  ELSE combineFrom(results, i + 1,
                   Append(outputs, Get(results[i], "output")))

RECURSIVE combineEntriesFrom(_, _, _)
combineEntriesFrom(entries, i, outputs) ==
  IF i > Len(entries) THEN createSuccess(Mapping(outputs))
  ELSE IF isFail(entries[i].value) THEN entries[i].value
  ELSE combineEntriesFrom(
         entries, i + 1,
         Append(outputs, [key |-> entries[i].key,
                          value |-> Get(entries[i].value, "output")]))

\* combineResults on a sequence: the first Failure as it is, or the Success
\* of the outputs in order.
combineResults(results) == combineFrom(results, 1, <<>>)

\* combineResults on a mapping: the first Failure in iteration order as it
\* is, or the Success of the outputs under the same keys.
combineResultsRecord(record) == combineEntriesFrom(record.entries, 1, <<>>)

\* A call that runs to its end without suspending.
SyncCall(name, o, log) ==
  /\ op = "none"
  /\ op' = name
  /\ outcome' = o
  /\ calls' = log
  /\ pc' = "done"
  /\ UNCHANGED <<fns, initial, args, conditionals, idx, awaited, inflight, ref>>

CreateSuccessCall ==
  /\ DOMAIN args = {"output"}
  /\ SyncCall("createSuccess", Return(createSuccess(args.output)), <<>>)

CreateFailCall ==
  /\ DOMAIN args = {"error"}
  /\ SyncCall("createFail", Return(createFail(args.error)), <<>>)

CreateErrorStringCall ==
  /\ DOMAIN args = {"error", "context"}
  /\ SyncCall("createErrorString",
              Return(Str(createErrorString(args.error,
                                           DefaultTo(args.context, "")))),
              <<>>)

CreateErrorPropertiesCall ==
  /\ DOMAIN args = {"error", "context"}
  /\ SyncCall("createErrorProperties",
              Return(createErrorProperties(args.error,
                                           DefaultTo(args.context, ""))),
              <<>>)

RTryCall ==
  /\ DOMAIN args = {"fn", "args"}
  /\ SyncCall("rTry", rTry(args.fn, args.args), <<Call(1, <<args.args>>)>>)

RTryAsyncCall ==
  /\ op = "none"
  /\ DOMAIN args = {"fn", "args"}
  /\ op' = "rTryAsync"
  /\ LET f == rTryAsyncStart(args.fn, args.args)
     IN  Enter(f) /\ calls' = f.calls
  /\ UNCHANGED <<fns, initial, args, conditionals, ref>>

RTryAsyncResume ==
  /\ op = "rTryAsync" /\ pc = "await" /\ awaited.state # "pending"
  /\ LET f == rTryAsyncResume(awaited)
     IN  Enter(f) /\ calls' = calls \o f.calls
  /\ UNCHANGED <<fns, initial, args, conditionals, op, ref>>

AllSuccessCall ==
  /\ DOMAIN args = {"results"}
  /\ SyncCall("allSuccess", Return(allSuccess(args.results)), <<>>)

UnwrapResultsCall ==
  /\ DOMAIN args = {"results"}
  /\ SyncCall("unwrapResults", unwrapResults(args.results), <<>>)

CombineResultsCall ==
  /\ DOMAIN args = {"results"}
  /\ SyncCall("combineResults", Return(combineResults(args.results)), <<>>)

CombineResultsRecordCall ==
  /\ DOMAIN args = {"record"}
  /\ SyncCall("combineResults", Return(combineResultsRecord(args.record)),
              <<>>)

ValueCalls ==
  [output : Values]
    \cup [error : CreateFailInputs]
    \cup [error : Values, context : Contexts]
    \cup [fn : Steps(GuardKinds), args : GuardArgs]
    \cup [results : ResultLists]
    \cup [record : ResultMappings]

InitValues ==
  /\ fns = <<>>
  /\ initial = Undefined
  /\ args \in ValueCalls
  /\ conditionals = <<>>
  /\ op = "none"
  /\ pc = "idle"
  /\ idx = 0
  /\ awaited = NoPromise
  /\ inflight = {}
  /\ calls = <<>>
  /\ outcome = NoOutcome
  /\ ref = NoRef

\* Every way of producing a Result: the caller holds the steps of a pipe,
\* the input and conditionals of rcond, or the arguments of a direct call.
InitResult == Init \/ InitCond \/ InitValues

NextResult ==
  \/ fns # <<>> /\ ResultPipeCall
  \/ ResultPipeResume
  \/ Settle
  \/ RpipeAsyncCall
  \/ RpipeAsyncResume
  \/ RpipeCall
  \/ args \in CondInputs /\ RcondCall
  \/ CreateSuccessCall
  \/ CreateFailCall
  \/ CreateErrorStringCall
  \/ CreateErrorPropertiesCall
  \/ RTryCall
  \/ RTryAsyncCall
  \/ RTryAsyncResume
  \/ AllSuccessCall
  \/ UnwrapResultsCall
  \/ CombineResultsCall
  \/ CombineResultsRecordCall

SpecResult == InitResult /\ [][NextResult]_vars

-----------------------------------------------------------------------------
(***************************************************************************)
(* Properties of the Result type and of the error utilities                *)
(* (specification SpecResult).                                             *)
(***************************************************************************)
\* The operations that hand a Result to their caller.
ResultProducers ==
  {"createSuccess", "createFail", "rTry", "rTryAsync", "resultPipe", "rpipe",
   "rpipeAsync", "rcond", "combineResults"}

\* The running call has handed a Result to its caller.
Produced ==
  /\ op \in ResultProducers
  /\ pc = "done"
  /\ outcome.type \in {"return", "resolve"}

\* C14: every Result produced by createSuccess, createFail, rTry (guardSync),
\* rTryAsync (guardAsync), resultPipe, rpipe, rpipeAsync, rcond or
\* combineResults is exactly one of Success and Failure: exactly one of
\* isSuccess / isFail is true of it, it has an output iff isSuccess and an
\* error iff isFail.
C14_ExactlyOneVariant ==
  Produced =>
    LET r == outcome.value
    IN  /\ isSuccess(r) # isFail(r)
        /\ ("output" \in DOMAIN r) <=> isSuccess(r)
        /\ ("error" \in DOMAIN r) <=> isFail(r)

C14_Witness ==
  /\ Produced
  /\ op = "rTry"
  /\ args.fn = [mode |-> "sync", kind |-> "retUndefined"]
  /\ isSuccess(outcome.value) /\ ~isFail(outcome.value)
  /\ DOMAIN outcome.value = {"success", "output"}
  /\ outcome.value.output = Undefined

\* C15: createSuccess(v) is a Success whose output is v itself; for a string
\* e, createFail(e) is a Failure whose error is e and whose message, stack,
\* cause and name are absent.
C15_Constructors ==
  /\ (op = "createSuccess") =>
       /\ outcome = Return([success |-> TRUE, output |-> args.output])
       /\ isSuccess(outcome.value) /\ ~isFail(outcome.value)
  /\ (op = "createFail" /\ IsTagged(args.error, "string")) =>
       /\ outcome = Return([success |-> FALSE, error |-> args.error.str])
       /\ isFail(outcome.value) /\ ~isSuccess(outcome.value)
       /\ \A key \in OptionalKeys : Absent(outcome.value, key)

C15_Witness ==
  /\ op = "createSuccess"
  /\ args.output = PlainObject(Str("test error"))
  /\ outcome.value.output = PlainObject(Str("test error"))
  /\ isSuccess(outcome.value)

\* C16 as stated: in every Failure produced, by createFail, rTry, rTryAsync,
\* resultPipe, rpipe, rpipeAsync, rcond or combineResults, the error is a
\* non-empty string.
C16_AsStated ==
  (Produced /\ isFail(outcome.value)) => outcome.value.error # ""

\* C17: createFail of a record {error, message?, stack?, cause?, name?} is a
\* Failure with the record's error, in which each optional field the record
\* supplies has the supplied value and each field it lacks is absent.
C17_RecordFieldsCopied ==
  (op = "createFail" /\ ~IsTagged(args.error, "string")) =>
    LET r == outcome.value
    IN  /\ outcome.type = "return"
        /\ isFail(r) /\ ~isSuccess(r)
        /\ r.error = args.error.error
        /\ \A key \in OptionalKeys :
             IF key \in DOMAIN args.error
             THEN /\ Get(r, key) = args.error[key]
                  /\ ("context" \notin DOMAIN args.error) =>
                       Get(r, key) = Supplied(key)
             ELSE Absent(r, key)

C17_Witness ==
  /\ op = "createFail"
  /\ DOMAIN args.error = {"t", "error", "message", "name"}
  /\ outcome.value.error = "Operation failed"
  /\ outcome.value.message = Str("Invalid input")
  /\ outcome.value.name = Str("ValidationError")
  /\ Absent(outcome.value, "stack")
  /\ Absent(outcome.value, "cause")

\* The index of the first Failure of a sequence of Results (0 when none).
FirstFailure(results) ==
  LET S == {i \in 1..Len(results) : isFail(results[i])}
  IN  IF S = {} THEN 0 ELSE CHOOSE i \in S : \A j \in S : i <= j

\* C18 as stated: on a sequence holding a Failure, unwrapResults throws an
\* Error whose message is "Cannot unwrap failed result: " followed by the
\* error of the first Failure, and returns no sequence.
C18_AsStated ==
  (op = "unwrapResults" /\ FirstFailure(args.results) > 0) =>
    /\ outcome.type = "throw"
    /\ outcome.value.message =
         "Cannot unwrap failed result: "
           \o args.results[FirstFailure(args.results)].error

\* C19: on a sequence of Successes (the empty one included), unwrapResults
\* returns a sequence of the same length whose i-th element is the output
\* of the i-th Result, and the sequence it was given is left as it was.
C19_UnwrapsInOrder ==
  /\ [](  (op = "unwrapResults" /\ FirstFailure(args.results) = 0) =>
            /\ outcome.type = "return"
            /\ Len(outcome.value) = Len(args.results)
            /\ \A i \in 1..Len(args.results) :
                 outcome.value[i] = args.results[i].output)
  /\ [][op' = "unwrapResults" => args' = args]_vars

C19_Witness ==
  /\ op = "unwrapResults"
  /\ args.results =
       <<createSuccess(Num(1)), createSuccess(Str("test")),
         createSuccess(Undefined)>>
  /\ outcome = Return(<<Num(1), Str("test"), Undefined>>)

\* The text createErrorString gives for each value, without the prefix.
TextOf(v) ==
  CASE v = ErrWithStack -> "Error: boom at step"
    [] v = ErrNoStack -> "bad input"
    [] v = ErrEmptyStack -> "test error"
    [] v = Num(42) -> "42"
    [] v = Str("test") -> "test"
    [] v = Str("") -> ""
    [] v = Undefined -> "undefined"
    [] v = PlainObject(Str("test error")) -> "[object Object]"
    [] v = PlainNamed -> "[object Object]"
    [] v = Str("string error") -> "string error"
    [] v = Num(123) -> "123"
    [] v = ErrWithCause -> "TestError: test error at Test.fn"

\* C20: createErrorString (formatError) returns the prefix followed by the
\* stack of an Error whose stack is non-empty, by the message of an Error
\* whose stack is empty or missing, and by String(value) for any other
\* value, a plain object with a message field included ("[object Object]");
\* the prefix is the empty string when it is not given.
C20_FormatError ==
  (op = "createErrorString") =>
    LET prefix == IF args.context = Undefined THEN "" ELSE args.context.str
    IN  outcome = Return(Str(prefix \o TextOf(args.error)))

C20_Witness ==
  /\ op = "createErrorString"
  /\ args.error = PlainObject(Str("test error"))
  /\ args.context = Undefined
  /\ outcome = Return(Str("[object Object]"))

-----------------------------------------------------------------------------
(***************************************************************************)
(* Exceptions in cond and rcond (specification SpecCond).                  *)
(***************************************************************************)
\* C29: cond and rcond catch nothing.  When the first decisive condition
\* throws, the call throws that very value, having evaluated conditions up
\* to the throwing one and no action; when the matched action throws, the
\* call throws that very value.  rcond returns a Failure of its own making
\* only when no condition matches.
C29_ExceptionsPropagate ==
  (op \in {"cond", "rcond"}) =>
    LET k == FirstDecisive
    IN  /\ (k > 0 /\ conditionals[k].condition = "throwError") =>
             /\ outcome = Throw(ErrWithStack)
             /\ calls = [j \in 1..k |-> ConditionCall(j, args)]
             /\ ActionCalls = <<>>
        /\ (k > 0 /\ conditionals[k].condition # "throwError"
              /\ conditionals[k].action = "throwError") =>
             /\ outcome = Throw(ErrNoStack)
             /\ ActionCalls = <<ActionCall(k, args)>>
        /\ (op = "rcond" /\ outcome.type = "return"
              /\ outcome.value = createFail(Str("No conditional found"))) =>
             k = 0

C29_Witness ==
  /\ op = "rcond" /\ pc = "done"
  /\ args = Num(5)
  /\ Len(conditionals) = 3
  /\ conditionals[1].condition = "gt10"
  /\ conditionals[2].condition = "throwError"
  /\ conditionals[3].condition = "gt0"
  /\ outcome = Throw(ErrWithStack)
  /\ Len(calls) = 2

-----------------------------------------------------------------------------
(***************************************************************************)
(* Properties of createErrorProperties, rTry and rTryAsync                 *)
(* (specification SpecResult).                                             *)
(***************************************************************************)
\* The values that are Errors.
Errors == {ErrWithStack, ErrNoStack, ErrEmptyStack, ErrWithCause}

\* The optional fields createErrorProperties gives for the value v: those
\* of v when v is an Error, the cause as it is, and none otherwise.
FieldsOf(v) ==
  IF v \in Errors
  THEN [message |-> Str(v.message), stack |-> v.stack, cause |-> v.cause,
        name |-> Str(v.name)]
  ELSE [message |-> Undefined, stack |-> Undefined, cause |-> Undefined,
        name |-> Undefined]

\* C21: createErrorProperties(value, context) (errorProperties) has error =
\* createErrorString(value, context), context = the context given ("" when
\* omitted), message, stack and name those of value when value is an Error
\* and absent otherwise, cause the cause of value itself when it has one and
\* absent otherwise; for a string or a plain object with message / name keys
\* all four are absent.
C21_ErrorProperties ==
  (op = "createErrorProperties") =>
    LET v == args.error
        c == IF args.context = Undefined THEN "" ELSE args.context.str
        r == outcome.value
    IN  /\ outcome.type = "return"
        /\ r.error = c \o TextOf(v)
        /\ r.error = createErrorString(v, c)
        /\ r.context = c
        /\ \A key \in OptionalKeys : Get(r, key) = FieldsOf(v)[key]
        /\ (v \notin Errors) => \A key \in OptionalKeys : Absent(r, key)

C21_Witness ==
  /\ op = "createErrorProperties"
  /\ args.error = ErrWithCause
  /\ args.context = Str("Context: ")
  /\ outcome.value.error = "Context: TestError: test error at Test.fn"
  /\ outcome.value.context = "Context: "
  /\ outcome.value.cause = ErrNoStack
  /\ outcome.value.name = Str("TestError")

\* What the function handed to rTry / rTryAsync returns (or its promise
\* fulfils with), for the kinds that do not throw.
ReturnedBy(kind, a) ==
  CASE kind = "ret42" -> Num(42)
    [] kind = "echo" -> a
    [] kind = "retUndefined" -> Undefined

\* The Failure for a caught value x: createFail(errorProperties(x)) written
\* out.
FailureFor(x) ==
  [success |-> FALSE, error |-> TextOf(x), message |-> FieldsOf(x).message,
   stack |-> FieldsOf(x).stack, cause |-> FieldsOf(x).cause,
   name |-> FieldsOf(x).name]

\* The Result for a function of the given kind that returns, throws, or
\* whose promise fulfils or rejects.
GuardedResult(kind, a) ==
  IF kind \in {"ret42", "echo", "retUndefined"}
  THEN [success |-> TRUE, output |-> ReturnedBy(kind, a)]
  ELSE FailureFor(Thrown(kind))

\* C22: rTry (guardSync) and rTryAsync (guardAsync) never throw or reject
\* and invoke fn exactly once, with args.  rTry returns createSuccess(v) for
\* the v that fn returned and createFail(createErrorProperties(x)) for the
\* x it threw; rTryAsync resolves to the same for the v its promise
\* fulfilled with and the x it threw or its promise rejected with, and has
\* no outcome before that promise has settled.  The Failure carries the
\* message, stack, cause and name of x when x is an Error and none of them
\* otherwise.
C22_GuardsNeverRaise ==
  /\ (op = "rTry") =>
       /\ pc = "done"
       /\ outcome.type = "return"
       /\ calls = <<Call(1, <<args.args>>)>>
       /\ (args.fn.mode = "sync") =>
            outcome.value = GuardedResult(args.fn.kind, args.args)
       /\ (args.fn.mode = "pending") =>
            /\ isSuccess(outcome.value)
            /\ IsPromise(outcome.value.output)
       /\ (isFail(outcome.value) /\ Thrown(args.fn.kind) \notin Errors) =>
            \A key \in OptionalKeys : Absent(outcome.value, key)
  /\ (op = "rTryAsync") =>
       /\ outcome.type \in {"none", "resolve"}
       /\ calls = <<Call(1, <<args.args>>)>>
       /\ (pc = "await" /\ awaited.state = "pending") => outcome = NoOutcome
       /\ (pc = "done") =>
            outcome = Resolve(GuardedResult(args.fn.kind, args.args))

C22_Witness ==
  /\ op = "rTryAsync" /\ pc = "done"
  /\ args.fn = [mode |-> "pending", kind |-> "throwBareError"]
  /\ outcome.type = "resolve"
  /\ outcome.value.error = "bad input"
  /\ outcome.value.message = Str("bad input")
  /\ outcome.value.stack = Undefined
  /\ outcome.value.cause = Str("root cause")
  /\ outcome.value.name = Str("TypeError")
  /\ Len(calls) = 1

\* C30: no Failure built by createFail has a context field.  createFail of
\* the payload createErrorProperties(x, c) copies error, message, stack,
\* cause and name only, so that c is found in the Failure only as the
\* prefix of its error; the Failure of rTry / rTryAsync, which is
\* createFail(createErrorProperties(x)), has no context either.
C30_NoContextOnFailure ==
  /\ (Produced /\ op \in {"createFail", "rTry", "rTryAsync"}
        /\ isFail(outcome.value)) =>
       /\ "context" \notin DOMAIN outcome.value
       /\ DOMAIN outcome.value \subseteq {"success", "error"} \cup OptionalKeys
  /\ (op = "createFail" /\ "context" \in DOMAIN args.error) =>
       /\ outcome.value.error = args.error.error
       /\ outcome.value.error \in
            {args.error.context \o TextOf(v) : v \in Values}
       /\ \A key \in OptionalKeys :
            Get(outcome.value, key) = args.error[key]

C30_Witness ==
  /\ op = "createFail"
  /\ args.error = createErrorProperties(ErrWithStack, "Context: ")
  /\ args.error.context = "Context: "
  /\ outcome.value.error = "Context: Error: boom at step"
  /\ outcome.value.message = Str("boom")
  /\ "context" \notin DOMAIN outcome.value

-----------------------------------------------------------------------------
(***************************************************************************)
(* Properties of allSuccess and combineResults (specification SpecResult). *)
(***************************************************************************)
\* The sequence results rearranged by the permutation p of its indices.
Permuted(results, p) == [i \in 1..Len(results) |-> results[p[i]]]

\* C23: allSuccess(results) is true exactly when every element of results
\* is a Success, true for the empty sequence, the same for every
\* permutation of results, and leaves results as it was.
C23_AllSuccess ==
  /\ [](  (op = "allSuccess") =>
            LET rs == args.results
            IN  /\ outcome.type = "return"
                /\ outcome.value =
                     (\A i \in 1..Len(rs) : rs[i].success = TRUE)
                /\ (rs = <<>>) => outcome.value = TRUE
                /\ \A p \in Permutations(1..Len(rs)) :
                     allSuccess(Permuted(rs, p)) = outcome.value)
  /\ [][op' = "allSuccess" => args' = args]_vars

C23_Witness ==
  /\ op = "allSuccess"
  /\ Len(args.results) = 3
  /\ isSuccess(args.results[1])
  /\ isSuccess(args.results[2])
  /\ args.results[3] = RichFail
  /\ outcome = Return(FALSE)

\* The call was given a mapping.
OnMapping == DOMAIN args = {"record"}

\* The elements of the sequence or of the mapping given, in iteration order.
Elements ==
  IF OnMapping
  THEN [i \in 1..Len(args.record.entries) |-> args.record.entries[i].value]
  ELSE args.results

\* The index of the first element that is not a Success (0 when none).
FirstUnsuccessful(rs) ==
  LET S == {i \in 1..Len(rs) : rs[i].success = FALSE}
  IN  IF S = {} THEN 0 ELSE CHOOSE i \in S : \A j \in S : i <= j

\* C24: combineResults returns the first Failure of the sequence (of the
\* mapping, in iteration order) as it is, every field included; without a
\* Failure it returns the Success of the outputs in the original order (for
\* a mapping, under the same keys in the same order); the empty sequence /
\* mapping gives the Success of an empty one.  Its result is a Success
\* exactly when allSuccess holds of the elements.
C24_CombineResults ==
  (op = "combineResults") =>
    LET rs == Elements
        k == FirstUnsuccessful(rs)
        r == outcome.value
    IN  /\ outcome.type = "return"
        /\ (k > 0) => r = rs[k]
        /\ (k = 0 /\ ~OnMapping) =>
             r = [success |-> TRUE,
                  output |-> [i \in 1..Len(rs) |-> rs[i].output]]
        /\ (k = 0 /\ OnMapping) =>
             r = [success |-> TRUE,
                  output |->
                    Mapping([i \in 1..Len(rs) |->
                               [key |-> args.record.entries[i].key,
                                value |-> rs[i].output]])]
        /\ isSuccess(r) <=> allSuccess(rs)

C24_Witness ==
  /\ op = "combineResults"
  /\ OnMapping
  /\ Len(args.record.entries) = 3
  /\ isSuccess(args.record.entries[1].value)
  /\ args.record.entries[2] = [key |-> "count", value |-> RichFail]
  /\ args.record.entries[3].value = createFail(Str("boom"))
  /\ outcome = Return(RichFail)
  /\ outcome.value.name = Str("ValidationError")

-----------------------------------------------------------------------------
(***************************************************************************)
(* pipe and steps that return a Failure (specification SpecPipeFail).      *)
(***************************************************************************)
\* The index of the first step of the chain that returns a Failure (0 when
\* none does).
FirstFailingStep(chain) ==
  LET S == {i \in 1..Len(chain) : chain[i].kind = "retFail"}
  IN  IF S = {} THEN 0 ELSE CHOOSE i \in S : \A j \in S : i <= j

\* C25 as stated: each step of pipe receives the previous step's output,
\* and when a step returns a Failure the pipe stops: it returns that
\* Failure and invokes no later step.
C25_AsStated ==
  (op = "pipe") =>
    LET k == FirstFailingStep(fns)
    IN  /\ \A i \in 2..Len(calls) :
             calls[i].args = <<PlainStepOutcome(fns[i - 1].kind,
                                                calls[i - 1].args).value>>
        /\ (k > 0) =>
             /\ outcome = Return(createFail(Str("failed")))
             /\ Len(calls) = k

-----------------------------------------------------------------------------
(***************************************************************************)
(* unflatten (specification SpecFlatten).  An array is the tagged record   *)
(* of its items; an item is the record of its id and name, each absent     *)
(* (undefined), null or a string.                                          *)
(***************************************************************************)
Null == [t |-> "null"]
ArrayOf(items) == [t |-> "array", items |-> items]

IdValues == {Undefined, Null, Str(""), Str("foo"), Str("bar")}
Items == [id : IdValues, name : IdValues]

UnflattenInputs ==
  {Undefined, Null}
    \cup UNION {{ArrayOf(s) : s \in [1..n -> Items]} : n \in 0..MaxItems}

\* a ?? b
Coalesce(a, b) == IF a = Null \/ a = Undefined THEN b ELSE a

\* acc[id] = item: an existing key keeps its place, a new one comes last
SetKey(entries, key, value) ==
  IF \E j \in 1..Len(entries) : entries[j].key = key
  THEN [j \in 1..Len(entries) |->
          IF entries[j].key = key THEN [key |-> key, value |-> value]
          ELSE entries[j]]
  ELSE Append(entries, [key |-> key, value |-> value])

\* the reducer: const id = item.id ?? item.name; if (id) acc[id] = item
unflattenStep(acc, item) ==
  LET id == Coalesce(item.id, item.name)
  IN  IF Truthy(id) THEN SetKey(acc, id.str, item) ELSE acc

RECURSIVE unflattenFrom(_, _, _)
\* arr.reduce(..., {}), from element i on
unflattenFrom(items, i, acc) ==
  IF i > Len(items) THEN acc
  ELSE unflattenFrom(items, i + 1, unflattenStep(acc, items[i]))

unflatten(arr) ==
  IF arr = Undefined \/ arr = Null THEN Mapping(<<>>)
  ELSE Mapping(unflattenFrom(arr.items, 1, <<>>))

UnflattenCall ==
  /\ DOMAIN args = {"arr"}
  /\ SyncCall("unflatten", Return(unflatten(args.arr)), <<>>)

InitFlatten ==
  /\ fns = <<>>
  /\ initial = Undefined
  /\ args \in [arr : UnflattenInputs]
  /\ conditionals = <<>>
  /\ op = "none"
  /\ pc = "idle"
  /\ idx = 0
  /\ awaited = NoPromise
  /\ inflight = {}
  /\ calls = <<>>
  /\ outcome = NoOutcome
  /\ ref = NoRef

SpecFlatten == InitFlatten /\ [][UnflattenCall]_vars

\* The key the statement gives an item: its id when it has one, else its
\* name when it has one, "" when it has neither.  An empty string is read
\* as not having one, the reading most favourable to the code.
StatedKey(item) ==
  IF Truthy(item.id) THEN item.id.str
  ELSE IF Truthy(item.name) THEN item.name.str
  ELSE ""

\* C28 as stated: unflatten returns a mapping that holds each item under
\* its id, or under its name when it has no id, skips only the items that
\* have neither, and stores the item itself; null, undefined and the empty
\* array give the empty mapping.  (Of two items with the same key either
\* may be the one stored.)
C28_AsStated ==
  (op = "unflatten") =>
    LET items == IF args.arr = Undefined \/ args.arr = Null THEN <<>>
                 ELSE args.arr.items
        Kept == {i \in 1..Len(items) : StatedKey(items[i]) # ""}
        m == outcome.value.entries
    IN  /\ outcome.type = "return"
        /\ {m[j].key : j \in 1..Len(m)} = {StatedKey(items[i]) : i \in Kept}
        /\ \A j, k \in 1..Len(m) : m[j].key = m[k].key => j = k
        /\ \A j \in 1..Len(m) :
             \E i \in Kept : /\ StatedKey(items[i]) = m[j].key
                              /\ m[j].value = items[i]
        /\ (items = <<>>) => m = <<>>

-----------------------------------------------------------------------------
(***************************************************************************)
(* Several invocations of pipeAsync / resultPipe in flight at once         *)
(* (specification SpecConcurrent).  Every variable holds one component per *)
(* invocation.  The caller's runtime interleaves the invocations at their  *)
(* awaits.                                                                 *)
(***************************************************************************)
Invocations == 1..MaxInvocations

\* Steps of the interleaved pipes: one that returns directly and one that
\* returns a pending promise, for each position.
ParFirstSteps ==
  {[mode |-> "pending", kind |-> "one"], [mode |-> "sync", kind |-> "failString"]}
ParLaterSteps ==
  {[mode |-> "sync", kind |-> "inc"], [mode |-> "pending", kind |-> "throwError"]}
ParPlainSteps ==
  {[mode |-> "pending", kind |-> "inc"], [mode |-> "sync", kind |-> "throwString"]}

ParResultChains ==
  UNION {{c \in [1..n -> ParFirstSteps \cup ParLaterSteps] :
            /\ c[1] \in ParFirstSteps
            /\ \A i \in 2..n : c[i] \in ParLaterSteps} :
         n \in 1..MaxParSteps}

ParPlainChains == UNION {[1..n -> ParPlainSteps] : n \in 0..MaxParSteps}

\* What a caller invokes: resultPipe(...fns) or pipeAsync(initial, ...fns).
ParCalls ==
  [name : {"resultPipe"}, fns : ParResultChains, initial : {Undefined}]
    \cup [name : {"pipeAsync"}, fns : ParPlainChains,
          initial : {Pending(Return(Num(3)))}]

RECURSIVE Enumerated(_)
\* The elements of a finite set in some fixed order.
Enumerated(S) ==
  IF S = {} THEN <<>>
  ELSE LET x == CHOOSE y \in S : TRUE
       IN  <<x>> \o Enumerated(S \ {x})

ParCallList == Enumerated(ParCalls)

LocalsOf_Shared(k) == 1

\* `let result` / `let acc` are locals of the invocation: each invocation
\* reads and writes its own.
LocalsOf(k) == k

\* The state after a run of the body of invocation k that ends in frame f.
EnterPar(k, f) ==
  /\ pc' = [pc EXCEPT ![k] = f.pc]
  /\ idx' = [idx EXCEPT ![k] = f.idx]
  /\ awaited' = [awaited EXCEPT ![LocalsOf(k)] = f.awaited]
  /\ outcome' = [outcome EXCEPT ![k] = f.outcome]
  /\ inflight' = [inflight EXCEPT ![k] = (@ \ {idx[k]}) \cup f.inflight]
  /\ calls' = [calls EXCEPT ![k] = @ \o f.calls]

ParCall(k) ==
  /\ op[k] = "none"
  /\ op' = [op EXCEPT ![k] = args[k]]
  /\ EnterPar(k, IF args[k] = "resultPipe" THEN resultPipeStart(fns[k])
                 ELSE pipeAsyncStart(initial[k]))
  /\ UNCHANGED <<fns, initial, args, conditionals, ref>>

ParResume(k) ==
  /\ op[k] # "none" /\ pc[k] = "await"
  /\ awaited[LocalsOf(k)].state \notin {"pending", "none"}
  /\ EnterPar(k, IF op[k] = "resultPipe"
                 THEN resultPipeResume(fns[k], idx[k], awaited[LocalsOf(k)])
                 ELSE pipeAsyncResume(fns[k], idx[k], awaited[LocalsOf(k)]))
  /\ UNCHANGED <<fns, initial, args, conditionals, op, ref>>

\* The environment settles the promise invocation k is suspended on.
ParSettle(k) ==
  /\ pc[k] = "await" /\ awaited[k].state = "pending"
  /\ awaited' = [awaited EXCEPT ![k].state = awaited[k].then]
  /\ UNCHANGED <<fns, initial, args, conditionals, op, pc, idx, inflight,
                 calls, outcome, ref>>

\* The invocations are interchangeable: of the orders in which the caller
\* can number the same calls, one is started.
InitConcurrent ==
  /\ \E n \in [Invocations -> 1..Len(ParCallList)] :
       /\ \A j, k \in Invocations : j < k => n[j] <= n[k]
       /\ fns = [k \in Invocations |-> ParCallList[n[k]].fns]
       /\ initial = [k \in Invocations |-> ParCallList[n[k]].initial]
       /\ args = [k \in Invocations |-> ParCallList[n[k]].name]
  /\ conditionals = <<>>
  /\ op = [k \in Invocations |-> "none"]
  /\ pc = [k \in Invocations |-> "idle"]
  /\ idx = [k \in Invocations |-> 0]
  /\ awaited = [k \in Invocations |-> NoPromise]
  /\ inflight = [k \in Invocations |-> {}]
  /\ calls = [k \in Invocations |-> <<>>]
  /\ outcome = [k \in Invocations |-> NoOutcome]
  /\ ref = NoRef

NextConcurrent ==
  \/ \E k \in Invocations : ParCall(k)
  \/ \E k \in Invocations : ParResume(k)
  \/ \E k \in Invocations : ParSettle(k)

SpecConcurrent == InitConcurrent /\ [][NextConcurrent]_vars

RECURSIVE aloneFrom(_, _, _, _)
\* The run of one invocation with nothing else in flight, from frame f on:
\* its final result and the steps it invoked, in order.
aloneFrom(name, chain, f, log) ==
  IF f.pc = "done" THEN [outcome |-> f.outcome, calls |-> log]
  ELSE LET p == IF f.awaited.state = "pending"
                THEN [f.awaited EXCEPT !.state = f.awaited.then]
                ELSE f.awaited
           g == IF name = "resultPipe" THEN resultPipeResume(chain, f.idx, p)
                ELSE pipeAsyncResume(chain, f.idx, p)
       IN  aloneFrom(name, chain, g, log \o g.calls)

Alone(k) ==
  LET f == IF args[k] = "resultPipe" THEN resultPipeStart(fns[k])
           ELSE pipeAsyncStart(initial[k])
  IN  aloneFrom(args[k], fns[k], f, f.calls)

IsPrefix(s, t) ==
  Len(s) <= Len(t) /\ \A i \in 1..Len(s) : s[i] = t[i]

\* C26: with invocations of pipeAsync and resultPipe interleaved at their
\* awaits in any order, each invocation invokes its own steps in the order
\* (and with the arguments) it does when it runs alone, and ends with the
\* result it has when it runs alone.
C26_Isolation ==
  \A k \in Invocations :
    /\ IsPrefix(calls[k], Alone(k).calls)
    /\ (pc[k] = "done") =>
         /\ outcome[k] = Alone(k).outcome
         /\ calls[k] = Alone(k).calls

\* A pipeAsync and a resultPipe are in flight at once: the first is
\* suspended on the pending value of its second step, the other on the
\* pending value of its first.
C26_Witness ==
  \E j, k \in Invocations :
    /\ args[j] = "pipeAsync" /\ args[k] = "resultPipe"
    /\ Len(fns[j]) = 2 /\ Len(fns[k]) = 2
    /\ pc[j] = "await" /\ Len(calls[j]) = 2 /\ awaited[j].state = "pending"
    /\ pc[k] = "await" /\ Len(calls[k]) = 1 /\ awaited[k].state = "pending"
    /\ calls[j][2].args = <<Num(4)>>

-----------------------------------------------------------------------------
(***************************************************************************)
(* Termination of the async pipes (specification SpecLive).  The caller    *)
(* invokes resultPipe (no initial value) or pipeAsync.  The runtime runs   *)
(* the continuation of an await once the awaited promise has settled       *)
(* (weak fairness of the resumptions); whether a pending promise settles   *)
(* is up to its producer (no fairness of Settle).                          *)
(***************************************************************************)
InitLive == Init \/ InitPipe

NextLive ==
  \/ initial = Undefined /\ ResultPipeCall
  \/ initial # Undefined /\ PipeAsyncCall
  \/ ResultPipeResume
  \/ PipeAsyncResume
  \/ Settle

SpecLive ==
  /\ InitLive
  /\ [][NextLive]_vars
  /\ WF_vars(ResultPipeResume)
  /\ WF_vars(PipeAsyncResume)

Begun == op \in {"pipeAsync", "resultPipe"}

\* The pipe waits for a pending value that has not settled.
SuspendedOnPending == pc = "await" /\ awaited.state = "pending"

\* pipeAsync has settled; resultPipe has resolved to a Result.
Ended ==
  /\ pc = "done"
  /\ op = "pipeAsync" => outcome.type \in {"resolve", "reject"}
  /\ op = "resultPipe" =>
       outcome.type = "resolve" /\ "success" \in DOMAIN outcome.value

\* Every pending value the pipe comes to wait for settles.
EverySettles == []<>(~SuspendedOnPending)

\* Stage i is invoked at most once, as the i-th invocation.
NoReinvocation == [](\A i \in 1..Len(calls) : calls[i].fn = i)

\* C27 as stated: if every pending value settles the pipe ends; it stays
\* suspended forever only on the pending value of an invoked stage that
\* never settles; no stage is invoked again.
C27_AsStated ==
  /\ EverySettles => [](Begun => <>Ended)
  /\ [](Begun => (<>Ended \/ <>[](SuspendedOnPending /\ idx >= 1)))
  /\ NoReinvocation

\* C27: if every pending value settles the pipe ends; it stays suspended
\* forever only on a pending value supplied by the caller (the initial
\* value of pipeAsync or the return value of an invoked stage) that never
\* settles; no stage is invoked again.
C27_Termination ==
  /\ EverySettles => [](Begun => <>Ended)
  /\ [](Begun => (<>Ended \/ <>[]SuspendedOnPending))
  /\ NoReinvocation

\* pipeAsync has ended after a pending initial value and three pending
\* stages settled.
C27_Witness ==
  /\ op = "pipeAsync" /\ pc = "done"
  /\ IsPromise(initial)
  /\ Len(fns) = 3 /\ \A i \in 1..3 : fns[i].mode = "pending"
  /\ Len(calls) = 3
  /\ outcome.type = "resolve"

====
